---- MODULE Spec2Model ----
(***************************************************************************)
(* Live auction engine of src/app.py: the Auction row's live-state         *)
(* columns, the Bid table, the Socket.IO broadcasts and the HTTP handlers  *)
(* that drive a bidding round (go-live, close, select-player, place-bid,   *)
(* sell-player).                                                           *)
(*                                                                         *)
(* Spec     : requests run one at a time; each handler is one step.        *)
(* SpecConc : place_bid requests run on concurrent threads (the server is  *)
(*            created with async_mode='threading').  Every request has its *)
(*            own SQLAlchemy session, so place_bid is split where it loads *)
(*            the row, where it commits and where it emits.  The other     *)
(*            handlers run while no bid is in flight.                      *)
(* SpecSteps: requests run one at a time; each handler is split at its     *)
(*            db.session.commit() and at its socketio.emit, and either     *)
(*            call may raise.                                              *)
(* SpecThreads: select_player, place_bid and sell_player requests run on  *)
(*            concurrent threads, each split where it loads the row and    *)
(*            where it commits and emits; go-live and close run while no   *)
(*            request is in flight.                                        *)
(* SpecAuctions: the same threads on a table of two auctions; go-live and  *)
(*            close run at any time.                                       *)
(***************************************************************************)
EXTENDS Integers, Sequences, FiniteSets, TLC

(* ---------------------------- bounds ----------------------------------- *)
MaxEvents == 4                  \* broadcasts in one run of the server
MaxThreadEvents == 5            \* the same, with select and sell on threads

(* ---------------------------- tables ----------------------------------- *)
None == 0                       \* SQL NULL / JSON null / a missing key
AuctionIds == {1}               \* rows of the auction table
PlayerIds == {1, 2}             \* rows of the player table
TeamIds == {1, 2}               \* rows of the team table
Workers == {1, 2}               \* request threads of the threading server

\* Player.base_price, Player.name, Team.name, Auction.name: static columns
base_price(p) == 10 * p
player_name(p) == <<"player", p>>
team_name(t) == <<"team", t>>
auction_name(a) == <<"auction", a>>
\* Auction.min_bid and Auction.max_bid, as entered in the auction form
min_bid(a) == 2
max_bid(a) == 2

(* ---------------------------- requests --------------------------------- *)
\* ids a JSON body may carry: null, the id of a row, the id of no row
ReqAuctionIds == AuctionIds \cup {None, 2}
ReqPlayerIds == PlayerIds \cup {None, 3}

\* JSON values of bid_amount: null, other text, a numeric string, a number
BidAmountInputs ==
    {[t |-> "null", v |-> 0], [t |-> "bad", v |-> 0], [t |-> "str", v |-> 1]}
    \cup [t : {"num"}, v : {-1, 0, 1, 2, 3}]
Num(n) == [t |-> "num", v |-> n]

\* Python truthiness of a JSON value, as used by `not x` and all([...])
TruthyId(id) == id # None
TruthyAmount(x) ==
    CASE x.t = "null" -> FALSE
      [] x.t = "num" -> x.v # 0
      [] OTHER -> TRUE           \* a non-empty string

\* float(bid_amount): defined for numbers and numeric strings only
FloatParses(x) == x.t \in {"num", "str"}
Float(x) == x.v

SelectRequests ==
    [auction_id : ReqAuctionIds, player_id : ReqPlayerIds, random : BOOLEAN]
\* place_bid bodies: the bodies whose ids resolve and whose amount is a
\* positive number, and one such body with one field replaced by each other
\* value it may carry
GoodBid == [auction_id |-> 1, player_id |-> 1, team_id |-> 1,
            bid_amount |-> Num(1)]
PlaceBidRequests ==
    [auction_id : AuctionIds, player_id : PlayerIds,
     team_id : TeamIds, bid_amount : {Num(1), Num(2)}]
    \cup {[GoodBid EXCEPT !.auction_id = a] : a \in ReqAuctionIds}
    \cup {[GoodBid EXCEPT !.player_id = p] : p \in ReqPlayerIds}
    \cup {[GoodBid EXCEPT !.team_id = t] : t \in {None, 3}}
    \cup {[GoodBid EXCEPT !.bid_amount = x] : x \in BidAmountInputs}
SellRequests == [auction_id : ReqAuctionIds, player_id : ReqPlayerIds]

(* ---------------------------- state ------------------------------------ *)
VARIABLES
    auction,    \* auction table: id -> row (live-state columns and roster)
    bids,       \* bid table, in insertion order
    events,     \* events handed to socketio.emit, in emission order; a
                \* call that raised is logged as EmitRaised
    resp,       \* response of the last completed request
    inflight    \* per thread: the place_bid request it is executing

vars == <<auction, bids, events, resp, inflight>>

\* error messages of the handlers, under the names of the error taxonomy
NotLive == "Auction is not live"
PlayerMismatch == "This player is not currently being auctioned"
PlayerNotInAuction == "Player not in this auction"
NoAvailablePlayers == "No available players in this auction"
NoBidPlaced == "No bid placed yet"

Response(op, status, error) == [op |-> op, status |-> status, error |-> error]

IdleThread == [pc |-> "idle"]

\* add_auction: a draft auction with the roster picked in the form
Init ==
    /\ \E ps \in SUBSET PlayerIds :
         auction = [a \in AuctionIds |->
                      [status |-> "draft", is_live |-> FALSE,
                       current_player_id |-> None, highest_bid |-> 0,
                       highest_bid_team_id |-> None, players |-> ps]]
    /\ bids = <<>>
    /\ events = <<>>
    /\ resp = Response("none", 0, "")
    /\ inflight = [w \in Workers |-> IdleThread]

\* a response that leaves the store and the broadcast log alone
Reply(op, status, error) ==
    /\ resp' = Response(op, status, error)
    /\ UNCHANGED <<auction, bids, events, inflight>>

\* threads between the load and the emit of a place_bid
InFlight == {w \in Workers : inflight[w].pc # "idle"}
Quiescent == InFlight = {}

\* socketio.emit; a bid in flight has its broadcast still to come
Emit(e) ==
    /\ Len(events) + Cardinality(InFlight) < MaxEvents
    /\ events' = Append(events, e)

(* ---------------------------- handlers --------------------------------- *)
\* go_live_auction without the reset of the round
go_live_keeps_round(a) ==
    IF a \notin DOMAIN auction
    THEN Reply("go_live_auction", 404, "Not Found")
    ELSE /\ auction' = [auction EXCEPT
                          ![a].status = "live",
                          ![a].is_live = TRUE]
         /\ Emit([type |-> "auction_started", auction_id |-> a,
                  auction_name |-> auction_name(a)])
         /\ resp' = Response("go_live_auction", 302, "")
         /\ UNCHANGED <<bids, inflight>>

\* go_live_auction that first closes every other live auction
go_live_auction_exclusive(a) ==
    IF a \notin DOMAIN auction
    THEN Reply("go_live_auction", 404, "Not Found")
    ELSE /\ auction' = [b \in DOMAIN auction |->
                          IF b = a
                          THEN [auction[b] EXCEPT
                                   !.status = "live",
                                   !.is_live = TRUE,
                                   !.current_player_id = None,
                                   !.highest_bid = 0,
                                   !.highest_bid_team_id = None]
                          ELSE IF auction[b].status = "live"
                          THEN [auction[b] EXCEPT
                                   !.status = "closed",
                                   !.is_live = FALSE]
                          ELSE auction[b]]
         /\ Emit([type |-> "auction_started", auction_id |-> a,
                  auction_name |-> auction_name(a)])
         /\ resp' = Response("go_live_auction", 302, "")
         /\ UNCHANGED <<bids, inflight>>

go_live_auction(a) ==
    IF a \notin DOMAIN auction
    THEN Reply("go_live_auction", 404, "Not Found")
    ELSE /\ auction' = [auction EXCEPT
                          ![a].status = "live",
                          ![a].is_live = TRUE,
                          ![a].current_player_id = None,
                          ![a].highest_bid = 0,
                          ![a].highest_bid_team_id = None]
         /\ Emit([type |-> "auction_started", auction_id |-> a,
                  auction_name |-> auction_name(a)])
         /\ resp' = Response("go_live_auction", 302, "")
         /\ UNCHANGED <<bids, inflight>>

\* close_auction without the reset of the is_live flag
close_auction_keeps_flag(a) ==
    IF a \notin DOMAIN auction
    THEN Reply("close_auction", 404, "Not Found")
    ELSE /\ auction' = [auction EXCEPT ![a].status = "closed"]
         /\ Emit([type |-> "auction_closed", auction_id |-> a,
                  auction_name |-> auction_name(a)])
         /\ resp' = Response("close_auction", 302, "")
         /\ UNCHANGED <<bids, inflight>>

\* close_auction that also takes the player off the block
close_auction_ends_round(a) ==
    IF a \notin DOMAIN auction
    THEN Reply("close_auction", 404, "Not Found")
    ELSE /\ auction' = [auction EXCEPT
                          ![a].status = "closed",
                          ![a].is_live = FALSE,
                          ![a].current_player_id = None]
         /\ Emit([type |-> "auction_closed", auction_id |-> a,
                  auction_name |-> auction_name(a)])
         /\ resp' = Response("close_auction", 302, "")
         /\ UNCHANGED <<bids, inflight>>

close_auction(a) ==
    IF a \notin DOMAIN auction
    THEN Reply("close_auction", 404, "Not Found")
    ELSE /\ auction' = [auction EXCEPT
                          ![a].status = "closed",
                          ![a].is_live = FALSE]
         /\ Emit([type |-> "auction_closed", auction_id |-> a,
                  auction_name |-> auction_name(a)])
         /\ resp' = Response("close_auction", 302, "")
         /\ UNCHANGED <<bids, inflight>>

\* SelectCommit without the reset of the round's bid and leader
SelectCommitKeepsBid(a, p) ==
    /\ auction' = [auction EXCEPT ![a].current_player_id = p]
    /\ Emit([type |-> "player_live", player_id |-> p,
             player_name |-> player_name(p),
             base_price |-> base_price(p),
             min_bid |-> min_bid(a),
             current_bid |-> 0,
             total_amount |-> base_price(p)])
    /\ resp' = Response("select_player", 200, "")
    /\ UNCHANGED <<bids, inflight>>

\* lines 1178-1203: the part of select_player after the player is chosen
SelectCommit(a, p) ==
    /\ auction' = [auction EXCEPT
                     ![a].current_player_id = p,
                     ![a].highest_bid = 0,
                     ![a].highest_bid_team_id = None]
    /\ Emit([type |-> "player_live", player_id |-> p,
             player_name |-> player_name(p),
             base_price |-> base_price(p),
             min_bid |-> min_bid(a),
             current_bid |-> 0,
             total_amount |-> base_price(p)])
    /\ resp' = Response("select_player", 200, "")
    /\ UNCHANGED <<bids, inflight>>

\* select_player without the empty-roster check: random.choice raises
\* IndexError, which the except clause answers
select_player_random_unchecked(data) ==
    LET a == data.auction_id
        p == data.player_id
    IN  IF ~TruthyId(a)
        THEN Reply("select_player", 400, "Auction ID is required")
        ELSE IF a \notin DOMAIN auction
        THEN Reply("select_player", 404, "Auction not found")
        ELSE IF data.random
        THEN IF auction[a].players = {}
             THEN Reply("select_player", 500, "Server error")
             ELSE \E q \in auction[a].players : SelectCommit(a, q)
        ELSE IF ~TruthyId(p)
        THEN Reply("select_player", 400, "Player ID is required")
        ELSE IF p \notin PlayerIds
        THEN Reply("select_player", 404, "Player not found")
        ELSE IF p \notin auction[a].players
        THEN Reply("select_player", 400, PlayerNotInAuction)
        ELSE SelectCommit(a, p)

\* select_player without the check that the player is on the roster
select_player_any_player(data) ==
    LET a == data.auction_id
        p == data.player_id
    IN  IF ~TruthyId(a)
        THEN Reply("select_player", 400, "Auction ID is required")
        ELSE IF a \notin DOMAIN auction
        THEN Reply("select_player", 404, "Auction not found")
        ELSE IF data.random
        THEN IF auction[a].players = {}
             THEN Reply("select_player", 400, NoAvailablePlayers)
             ELSE \E q \in auction[a].players : SelectCommit(a, q)
        ELSE IF ~TruthyId(p)
        THEN Reply("select_player", 400, "Player ID is required")
        ELSE IF p \notin PlayerIds
        THEN Reply("select_player", 404, "Player not found")
        ELSE SelectCommit(a, p)

\* select_player whose random draw is from the whole player table
select_player_random_any(data) ==
    LET a == data.auction_id
        p == data.player_id
    IN  IF ~TruthyId(a)
        THEN Reply("select_player", 400, "Auction ID is required")
        ELSE IF a \notin DOMAIN auction
        THEN Reply("select_player", 404, "Auction not found")
        ELSE IF data.random
        THEN IF auction[a].players = {}
             THEN Reply("select_player", 400, NoAvailablePlayers)
             ELSE \E q \in PlayerIds : SelectCommit(a, q)
        ELSE IF ~TruthyId(p)
        THEN Reply("select_player", 400, "Player ID is required")
        ELSE IF p \notin PlayerIds
        THEN Reply("select_player", 404, "Player not found")
        ELSE IF p \notin auction[a].players
        THEN Reply("select_player", 400, PlayerNotInAuction)
        ELSE SelectCommit(a, p)

select_player(data) ==
    LET a == data.auction_id
        p == data.player_id
    IN  IF ~TruthyId(a)
        THEN Reply("select_player", 400, "Auction ID is required")
        ELSE IF a \notin DOMAIN auction
        THEN Reply("select_player", 404, "Auction not found")
        ELSE IF data.random
        THEN IF auction[a].players = {}
             THEN Reply("select_player", 400, NoAvailablePlayers)
             ELSE \E q \in auction[a].players : SelectCommit(a, q)
        ELSE IF ~TruthyId(p)
        THEN Reply("select_player", 400, "Player ID is required")
        ELSE IF p \notin PlayerIds
        THEN Reply("select_player", 404, "Player not found")
        ELSE IF p \notin auction[a].players
        THEN Reply("select_player", 400, PlayerNotInAuction)
        ELSE SelectCommit(a, p)

\* PlaceBidError without the comparison with the current player
PlaceBidErrorNoMismatch(data) ==
    LET a == data.auction_id
        p == data.player_id
        t == data.team_id
    IN  IF ~(TruthyId(a) /\ TruthyId(p) /\ TruthyId(t)
             /\ TruthyAmount(data.bid_amount))
        THEN <<400, "Missing required fields">>
        ELSE IF ~FloatParses(data.bid_amount)
        THEN <<400, "Invalid bid amount">>
        ELSE IF a \notin DOMAIN auction \/ t \notin TeamIds \/ p \notin PlayerIds
        THEN <<500, "Error placing bid: 404 Not Found">>
        ELSE IF ~auction[a].is_live \/ auction[a].status # "live"
        THEN <<400, NotLive>>
        ELSE <<200, "">>

\* PlaceBidError without the check of the live state
PlaceBidErrorNoLive(data) ==
    LET a == data.auction_id
        p == data.player_id
        t == data.team_id
    IN  IF ~(TruthyId(a) /\ TruthyId(p) /\ TruthyId(t)
             /\ TruthyAmount(data.bid_amount))
        THEN <<400, "Missing required fields">>
        ELSE IF ~FloatParses(data.bid_amount)
        THEN <<400, "Invalid bid amount">>
        ELSE IF a \notin DOMAIN auction \/ t \notin TeamIds \/ p \notin PlayerIds
        THEN <<500, "Error placing bid: 404 Not Found">>
        ELSE IF auction[a].current_player_id # p
        THEN <<400, PlayerMismatch>>
        ELSE <<200, "">>

\* lines 1215-1241: the checks of place_bid, <<200, "">> when they pass; the
\* 404 of get_or_404 is raised inside the try block and answered by its
\* except clause
PlaceBidError(data) ==
    LET a == data.auction_id
        p == data.player_id
        t == data.team_id
    IN  IF ~(TruthyId(a) /\ TruthyId(p) /\ TruthyId(t)
             /\ TruthyAmount(data.bid_amount))
        THEN <<400, "Missing required fields">>
        ELSE IF ~FloatParses(data.bid_amount)
        THEN <<400, "Invalid bid amount">>
        ELSE IF a \notin DOMAIN auction \/ t \notin TeamIds \/ p \notin PlayerIds
        THEN <<500, "Error placing bid: 404 Not Found">>
        ELSE IF ~auction[a].is_live \/ auction[a].status # "live"
        THEN <<400, NotLive>>
        ELSE IF auction[a].current_player_id # p
        THEN <<400, PlayerMismatch>>
        ELSE <<200, "">>

NewBid(data) ==
    [auction_id |-> data.auction_id, player_id |-> data.player_id,
     team_id |-> data.team_id, bid_amount |-> Float(data.bid_amount)]

\* the new_bid payload; highest_bid is re-read from the row after the commit
NewBidEvent(data, row) ==
    [type |-> "new_bid", team_id |-> data.team_id,
     team_name |-> team_name(data.team_id),
     amount |-> Float(data.bid_amount),
     cumulative_bid |-> row.highest_bid,
     base_price |-> base_price(data.player_id),
     total_amount |-> base_price(data.player_id) + row.highest_bid,
     player_id |-> data.player_id,
     player_name |-> player_name(data.player_id)]

\* place_bid with a bid that replaces highest_bid instead of adding to it
place_bid_replace(data) ==
    LET err == PlaceBidError(data)
        a == data.auction_id
    IN  IF err[1] # 200
        THEN Reply("place_bid", err[1], err[2])
        ELSE /\ bids' = Append(bids, NewBid(data))
             /\ auction' = [auction EXCEPT
                   ![a].highest_bid = Float(data.bid_amount),
                   ![a].highest_bid_team_id = data.team_id]
             /\ Emit(NewBidEvent(data, auction'[a]))
             /\ resp' = Response("place_bid", 200, "")
             /\ UNCHANGED inflight

\* place_bid in which only a bid above the cumulative bid takes the lead
place_bid_highest_leads(data) ==
    LET err == PlaceBidError(data)
        a == data.auction_id
    IN  IF err[1] # 200
        THEN Reply("place_bid", err[1], err[2])
        ELSE /\ bids' = Append(bids, NewBid(data))
             /\ auction' = [auction EXCEPT
                   ![a].highest_bid = auction[a].highest_bid
                                       + Float(data.bid_amount),
                   ![a].highest_bid_team_id =
                       IF Float(data.bid_amount) > auction[a].highest_bid
                       THEN data.team_id ELSE @]
             /\ Emit(NewBidEvent(data, auction'[a]))
             /\ resp' = Response("place_bid", 200, "")
             /\ UNCHANGED inflight

\* place_bid with the amount held between min_bid and max_bid
place_bid_checks_limits(data) ==
    LET err == PlaceBidError(data)
        a == data.auction_id
    IN  IF err[1] # 200
        THEN Reply("place_bid", err[1], err[2])
        ELSE IF \/ Float(data.bid_amount) < min_bid(a)
                \/ Float(data.bid_amount) > max_bid(a)
        THEN Reply("place_bid", 400, "Bid amount out of range")
        ELSE /\ bids' = Append(bids, NewBid(data))
             /\ auction' = [auction EXCEPT
                   ![a].highest_bid = auction[a].highest_bid
                                       + Float(data.bid_amount),
                   ![a].highest_bid_team_id = data.team_id]
             /\ Emit(NewBidEvent(data, auction'[a]))
             /\ resp' = Response("place_bid", 200, "")
             /\ UNCHANGED inflight

place_bid(data) ==
    LET err == PlaceBidError(data)
        a == data.auction_id
    IN  IF err[1] # 200
        THEN Reply("place_bid", err[1], err[2])
        ELSE /\ bids' = Append(bids, NewBid(data))
             /\ auction' = [auction EXCEPT
                   ![a].highest_bid = auction[a].highest_bid
                                       + Float(data.bid_amount),
                   ![a].highest_bid_team_id = data.team_id]
             /\ Emit(NewBidEvent(data, auction'[a]))
             /\ resp' = Response("place_bid", 200, "")
             /\ UNCHANGED inflight

\* sell_player without the check that a bid was placed
sell_player_unchecked(data) ==
    LET a == data.auction_id
        p == data.player_id
    IN  IF a \notin DOMAIN auction \/ p \notin PlayerIds
        THEN Reply("sell_player", 404, "Not Found")
        ELSE /\ auction' = [auction EXCEPT
                              ![a].current_player_id = None,
                              ![a].highest_bid = 0,
                              ![a].highest_bid_team_id = None]
             /\ Emit([type |-> "player_sold", player_id |-> p,
                      player_name |-> player_name(p),
                      team_id |-> auction[a].highest_bid_team_id,
                      team_name |->
                          team_name(auction[a].highest_bid_team_id),
                      sold_price |-> base_price(p) + auction[a].highest_bid,
                      base_price |-> base_price(p),
                      cumulative_bids |-> auction[a].highest_bid])
             /\ resp' = Response("sell_player", 200, "")
             /\ UNCHANGED <<bids, inflight>>

\* sell_player without the reset of highest_bid_team_id
sell_player_keeps_leader(data) ==
    LET a == data.auction_id
        p == data.player_id
    IN  IF a \notin DOMAIN auction \/ p \notin PlayerIds
        THEN Reply("sell_player", 404, "Not Found")
        ELSE IF auction[a].highest_bid_team_id = None
        THEN Reply("sell_player", 400, NoBidPlaced)
        ELSE /\ auction' = [auction EXCEPT
                              ![a].current_player_id = None,
                              ![a].highest_bid = 0]
             /\ Emit([type |-> "player_sold", player_id |-> p,
                      player_name |-> player_name(p),
                      team_id |-> auction[a].highest_bid_team_id,
                      team_name |->
                          team_name(auction[a].highest_bid_team_id),
                      sold_price |-> base_price(p) + auction[a].highest_bid,
                      base_price |-> base_price(p),
                      cumulative_bids |-> auction[a].highest_bid])
             /\ resp' = Response("sell_player", 200, "")
             /\ UNCHANGED <<bids, inflight>>

\* sell_player that deletes the Bid rows of the player it sells
sell_player_deletes_bids(data) ==
    LET a == data.auction_id
        p == data.player_id
    IN  IF a \notin DOMAIN auction \/ p \notin PlayerIds
        THEN Reply("sell_player", 404, "Not Found")
        ELSE IF auction[a].highest_bid_team_id = None
        THEN Reply("sell_player", 400, NoBidPlaced)
        ELSE /\ auction' = [auction EXCEPT
                              ![a].current_player_id = None,
                              ![a].highest_bid = 0,
                              ![a].highest_bid_team_id = None]
             /\ bids' = SelectSeq(bids, LAMBDA b : b.player_id # p)
             /\ Emit([type |-> "player_sold", player_id |-> p,
                      player_name |-> player_name(p),
                      team_id |-> auction[a].highest_bid_team_id,
                      team_name |->
                          team_name(auction[a].highest_bid_team_id),
                      sold_price |-> base_price(p) + auction[a].highest_bid,
                      base_price |-> base_price(p),
                      cumulative_bids |-> auction[a].highest_bid])
             /\ resp' = Response("sell_player", 200, "")
             /\ UNCHANGED inflight

\* sell_player without the reset of highest_bid
sell_player_keeps_bid(data) ==
    LET a == data.auction_id
        p == data.player_id
    IN  IF a \notin DOMAIN auction \/ p \notin PlayerIds
        THEN Reply("sell_player", 404, "Not Found")
        ELSE IF auction[a].highest_bid_team_id = None
        THEN Reply("sell_player", 400, NoBidPlaced)
        ELSE /\ auction' = [auction EXCEPT
                              ![a].current_player_id = None,
                              ![a].highest_bid_team_id = None]
             /\ Emit([type |-> "player_sold", player_id |-> p,
                      player_name |-> player_name(p),
                      team_id |-> auction[a].highest_bid_team_id,
                      team_name |->
                          team_name(auction[a].highest_bid_team_id),
                      sold_price |-> base_price(p) + auction[a].highest_bid,
                      base_price |-> base_price(p),
                      cumulative_bids |-> auction[a].highest_bid])
             /\ resp' = Response("sell_player", 200, "")
             /\ UNCHANGED <<bids, inflight>>

sell_player(data) ==
    LET a == data.auction_id
        p == data.player_id
    IN  IF a \notin DOMAIN auction \/ p \notin PlayerIds
        THEN Reply("sell_player", 404, "Not Found")
        ELSE IF auction[a].highest_bid_team_id = None
        THEN Reply("sell_player", 400, NoBidPlaced)
        ELSE /\ auction' = [auction EXCEPT
                              ![a].current_player_id = None,
                              ![a].highest_bid = 0,
                              ![a].highest_bid_team_id = None]
             /\ Emit([type |-> "player_sold", player_id |-> p,
                      player_name |-> player_name(p),
                      team_id |-> auction[a].highest_bid_team_id,
                      team_name |->
                          team_name(auction[a].highest_bid_team_id),
                      sold_price |-> base_price(p) + auction[a].highest_bid,
                      base_price |-> base_price(p),
                      cumulative_bids |-> auction[a].highest_bid])
             /\ resp' = Response("sell_player", 200, "")
             /\ UNCHANGED <<bids, inflight>>

\* func.sum(Bid.bid_amount) over a sequence of Bid rows
RECURSIVE SumAmounts(_)
SumAmounts(s) ==
    IF s = <<>> THEN 0 ELSE s[1].bid_amount + SumAmounts(Tail(s))

\* Spending with an entry for every team, also one without a Bid row
SpendingEveryTeam(a, p) ==
    LET rows(t) == SelectSeq(bids, LAMBDA b : /\ b.auction_id = a
                                              /\ b.player_id = p
                                              /\ b.team_id = t)
    IN  {[team_id |-> t, team_name |-> team_name(t),
          total_bid |-> SumAmounts(rows(t))] : t \in TeamIds}

\* lines 1331-1346: the Bid rows of (auction a, player p) grouped by team,
\* one entry per team that has a row, with the sum of its amounts
Spending(a, p) ==
    LET rows(t) == SelectSeq(bids, LAMBDA b : /\ b.auction_id = a
                                              /\ b.player_id = p
                                              /\ b.team_id = t)
    IN  {[team_id |-> t, team_name |-> team_name(t),
          total_bid |-> SumAmounts(rows(t))] :
            t \in {u \in TeamIds : rows(u) # <<>>}}

\* a read-only query: the response carries the grouped sums
get_team_spending(a, p) ==
    /\ resp' = [op |-> "get_team_spending", status |-> 200, error |-> "",
                spending |-> Spending(a, p)]
    /\ UNCHANGED <<auction, bids, events, inflight>>

(* ---------------------------- sequential system ------------------------ *)
GoLive == \E a \in AuctionIds \cup {2} : go_live_auction(a)
Close == \E a \in AuctionIds \cup {2} : close_auction(a)
SelectPlayer == \E data \in SelectRequests : select_player(data)
PlaceBid == \E data \in PlaceBidRequests : place_bid(data)
SellPlayer == \E data \in SellRequests : sell_player(data)
TeamSpending ==
    \E a \in AuctionIds, p \in PlayerIds \cup {3} : get_team_spending(a, p)

Next ==
    \/ GoLive
    \/ Close
    \/ SelectPlayer
    \/ PlaceBid
    \/ SellPlayer
    \/ TeamSpending

Spec == Init /\ [][Next]_vars

(* ---------------------------- concurrent place_bid --------------------- *)
\* lines 1215-1241 on thread w: the checks, and the session's copy of the row
PlaceBidLoad(w, data) ==
    LET err == PlaceBidError(data)
    IN  /\ inflight[w].pc = "idle"
        /\ IF err[1] # 200
           THEN Reply("place_bid", err[1], err[2])
           ELSE /\ Len(events) + Cardinality(InFlight) < MaxEvents
                /\ inflight' = [inflight EXCEPT ![w] =
                       [pc |-> "loaded", data |-> data,
                        row |-> auction[data.auction_id]]]
                /\ UNCHANGED <<auction, bids, events, resp>>

\* lines 1245-1257 on thread w: INSERT the bid and UPDATE the columns whose
\* value differs from the session's copy, computed from that copy
PlaceBidCommit(w) ==
    LET data == inflight[w].data
        row == inflight[w].row
        a == data.auction_id
        new_highest_bid == row.highest_bid + Float(data.bid_amount)
    IN  /\ inflight[w].pc = "loaded"
        /\ bids' = Append(bids, NewBid(data))
        /\ auction' = [auction EXCEPT
              ![a].highest_bid =
                  IF new_highest_bid # row.highest_bid
                  THEN new_highest_bid ELSE @,
              ![a].highest_bid_team_id =
                  IF data.team_id # row.highest_bid_team_id
                  THEN data.team_id ELSE @]
        /\ inflight' = [inflight EXCEPT ![w].pc = "committed"]
        /\ UNCHANGED <<events, resp>>

\* lines 1259-1278 on thread w: the row is expired by the commit, so the
\* payload is built from the row as it is in the store now
PlaceBidEmit(w) ==
    LET data == inflight[w].data
    IN  /\ inflight[w].pc = "committed"
        /\ events' = Append(events, NewBidEvent(data, auction[data.auction_id]))
        /\ resp' = Response("place_bid", 200, "")
        /\ inflight' = [inflight EXCEPT ![w] = IdleThread]
        /\ UNCHANGED <<auction, bids>>

Load == \E w \in Workers, data \in PlaceBidRequests : PlaceBidLoad(w, data)
Commit == \E w \in Workers : PlaceBidCommit(w)
EmitBid == \E w \in Workers : PlaceBidEmit(w)

NextConc ==
    \/ Quiescent /\ GoLive
    \/ Quiescent /\ Close
    \/ Quiescent /\ SelectPlayer
    \/ Quiescent /\ SellPlayer
    \/ Load
    \/ Commit
    \/ EmitBid

SpecConc == Init /\ [][NextConc]_vars

(* ---------------------------- handlers step by step -------------------- *)
\* SpecSteps: requests run one at a time, and every handler is split at its
\* db.session.commit() and at its socketio.emit; either call may raise.

\* the entry of the log for a call of socketio.emit that raised: no client
\* received the event
EmitRaised == [type |-> "emit_raised"]

\* a thread that has committed and stands at its socketio.emit of event e
AtEmit(op, status, e) ==
    [pc |-> "emit", op |-> op, status |-> status, event |-> e]

\* lines 1087-1095: go_live_auction up to its commit; an exception of the
\* commit leaves the view and Flask answers 500
go_live_commit(w, a) ==
    /\ Quiescent
    /\ IF a \notin DOMAIN auction
       THEN Reply("go_live_auction", 404, "Not Found")
       ELSE \/ /\ Len(events) < MaxEvents
               /\ auction' = [auction EXCEPT
                                ![a].status = "live",
                                ![a].is_live = TRUE,
                                ![a].current_player_id = None,
                                ![a].highest_bid = 0,
                                ![a].highest_bid_team_id = None]
               /\ inflight' = [inflight EXCEPT ![w] =
                      AtEmit("go_live_auction", 302,
                             [type |-> "auction_started", auction_id |-> a,
                              auction_name |-> auction_name(a)])]
               /\ UNCHANGED <<bids, events, resp>>
            \/ Reply("go_live_auction", 500, "Internal Server Error")

\* lines 1109-1112: close_auction up to its commit
close_commit(w, a) ==
    /\ Quiescent
    /\ IF a \notin DOMAIN auction
       THEN Reply("close_auction", 404, "Not Found")
       ELSE \/ /\ Len(events) < MaxEvents
               /\ auction' = [auction EXCEPT
                                ![a].status = "closed",
                                ![a].is_live = FALSE]
               /\ inflight' = [inflight EXCEPT ![w] =
                      AtEmit("close_auction", 302,
                             [type |-> "auction_closed", auction_id |-> a,
                              auction_name |-> auction_name(a)])]
               /\ UNCHANGED <<bids, events, resp>>
            \/ Reply("close_auction", 500, "Internal Server Error")

\* lines 1178-1182 and 1204-1209: the assignments and the commit of
\* select_player; an exception of the commit is answered by the except clause
SelectStore(w, a, p) ==
    \/ /\ Len(events) < MaxEvents
       /\ auction' = [auction EXCEPT
                        ![a].current_player_id = p,
                        ![a].highest_bid = 0,
                        ![a].highest_bid_team_id = None]
       /\ inflight' = [inflight EXCEPT ![w] =
              AtEmit("select_player", 200,
                     [type |-> "player_live", player_id |-> p,
                      player_name |-> player_name(p),
                      base_price |-> base_price(p),
                      min_bid |-> min_bid(a),
                      current_bid |-> 0,
                      total_amount |-> base_price(p)])]
       /\ UNCHANGED <<bids, events, resp>>
    \/ Reply("select_player", 500, "Server error: commit")

\* lines 1143-1182: select_player up to its commit
select_commit(w, data) ==
    LET a == data.auction_id
        p == data.player_id
    IN  /\ Quiescent
        /\ IF ~TruthyId(a)
           THEN Reply("select_player", 400, "Auction ID is required")
           ELSE IF a \notin DOMAIN auction
           THEN Reply("select_player", 404, "Auction not found")
           ELSE IF data.random
           THEN IF auction[a].players = {}
                THEN Reply("select_player", 400, NoAvailablePlayers)
                ELSE \E q \in auction[a].players : SelectStore(w, a, q)
           ELSE IF ~TruthyId(p)
           THEN Reply("select_player", 400, "Player ID is required")
           ELSE IF p \notin PlayerIds
           THEN Reply("select_player", 404, "Player not found")
           ELSE IF p \notin auction[a].players
           THEN Reply("select_player", 400, PlayerNotInAuction)
           ELSE SelectStore(w, a, p)

\* lines 1286-1308: sell_player up to its commit; the payload is built from
\* the values read before the fields are cleared
sell_commit(w, data) ==
    LET a == data.auction_id
        p == data.player_id
    IN  /\ Quiescent
        /\ IF a \notin DOMAIN auction \/ p \notin PlayerIds
           THEN Reply("sell_player", 404, "Not Found")
           ELSE IF auction[a].highest_bid_team_id = None
           THEN Reply("sell_player", 400, NoBidPlaced)
           ELSE \/ /\ Len(events) < MaxEvents
                   /\ auction' = [auction EXCEPT
                                    ![a].current_player_id = None,
                                    ![a].highest_bid = 0,
                                    ![a].highest_bid_team_id = None]
                   /\ inflight' = [inflight EXCEPT ![w] =
                          AtEmit("sell_player", 200,
                             [type |-> "player_sold", player_id |-> p,
                              player_name |-> player_name(p),
                              team_id |-> auction[a].highest_bid_team_id,
                              team_name |->
                                  team_name(auction[a].highest_bid_team_id),
                              sold_price |->
                                  base_price(p) + auction[a].highest_bid,
                              base_price |-> base_price(p),
                              cumulative_bids |-> auction[a].highest_bid])]
                   /\ UNCHANGED <<bids, events, resp>>
                \/ Reply("sell_player", 500, "Internal Server Error")

\* socketio.emit of go_live_auction, close_auction, select_player and
\* sell_player, and the success response that follows it
HandlerEmit(w) ==
    /\ inflight[w].pc = "emit"
    /\ events' = Append(events, inflight[w].event)
    /\ resp' = Response(inflight[w].op, inflight[w].status, "")
    /\ inflight' = [inflight EXCEPT ![w] = IdleThread]
    /\ UNCHANGED <<auction, bids>>

\* socketio.emit raises: the except clause of select_player answers 500
\* after a rollback that finds nothing to undo; in the handlers without try
\* the exception leaves the view and Flask answers 500
HandlerEmitFails(w) ==
    /\ inflight[w].pc = "emit"
    /\ resp' = IF inflight[w].op = "select_player"
               THEN Response("select_player", 500, "Server error: emit")
               ELSE Response(inflight[w].op, 500, "Internal Server Error")
    /\ events' = Append(events, EmitRaised)
    /\ inflight' = [inflight EXCEPT ![w] = IdleThread]
    /\ UNCHANGED <<auction, bids>>

\* PlaceBidCommitFails in a handler that emits before it commits
PlaceBidCommitFailsAfterEmit(w) ==
    /\ inflight[w].pc = "loaded"
    /\ resp' = Response("place_bid", 500, "Error placing bid: commit")
    /\ events' = Append(events,
                        NewBidEvent(inflight[w].data,
                            [inflight[w].row EXCEPT !.highest_bid =
                                @ + Float(inflight[w].data.bid_amount)]))
    /\ inflight' = [inflight EXCEPT ![w] = IdleThread]
    /\ UNCHANGED <<auction, bids>>

\* PlaceBidCommitFails without the rollback: the flushed Bid row stays
PlaceBidCommitFailsKeepsBid(w) ==
    /\ inflight[w].pc = "loaded"
    /\ resp' = Response("place_bid", 500, "Error placing bid: commit")
    /\ bids' = Append(bids, NewBid(inflight[w].data))
    /\ inflight' = [inflight EXCEPT ![w] = IdleThread]
    /\ UNCHANGED <<auction, events>>

\* lines 1257 and 1279-1281: the commit of place_bid raises; the except
\* clause rolls the session back, with the Bid and the row's new values
PlaceBidCommitFails(w) ==
    /\ inflight[w].pc = "loaded"
    /\ resp' = Response("place_bid", 500, "Error placing bid: commit")
    /\ inflight' = [inflight EXCEPT ![w] = IdleThread]
    /\ UNCHANGED <<auction, bids, events>>

\* lines 1263-1272 and 1279-1281: the emit of place_bid raises after the
\* commit; the rollback of the except clause finds nothing to undo
PlaceBidEmitFails(w) ==
    /\ inflight[w].pc = "committed"
    /\ resp' = Response("place_bid", 500, "Error placing bid: emit")
    /\ events' = Append(events, EmitRaised)
    /\ inflight' = [inflight EXCEPT ![w] = IdleThread]
    /\ UNCHANGED <<auction, bids>>

\* the requests of SpecSteps: bodies whose ids resolve, served by one thread
StepWorkers == {w \in Workers : \A v \in Workers : w <= v}
StepSelectRequests ==
    [auction_id : AuctionIds, player_id : PlayerIds, random : BOOLEAN]
StepBidRequests ==
    [auction_id : AuctionIds, player_id : PlayerIds,
     team_id : TeamIds, bid_amount : {Num(1)}]
StepSellRequests == [auction_id : AuctionIds, player_id : PlayerIds]

GoLiveCommit == \E w \in StepWorkers, a \in AuctionIds : go_live_commit(w, a)
CloseCommit == \E w \in StepWorkers, a \in AuctionIds : close_commit(w, a)
SelectCommitStep ==
    \E w \in StepWorkers, data \in StepSelectRequests : select_commit(w, data)
SellCommit ==
    \E w \in StepWorkers, data \in StepSellRequests : sell_commit(w, data)
LoadAlone ==
    /\ Quiescent
    /\ \E w \in StepWorkers, data \in StepBidRequests : PlaceBidLoad(w, data)
EmitEvent == \E w \in Workers : HandlerEmit(w)
EmitFails == \E w \in Workers : HandlerEmitFails(w)
CommitFails == \E w \in Workers : PlaceBidCommitFails(w)
EmitBidFails == \E w \in Workers : PlaceBidEmitFails(w)

NextSteps ==
    \/ GoLiveCommit
    \/ CloseCommit
    \/ SelectCommitStep
    \/ SellCommit
    \/ EmitEvent
    \/ EmitFails
    \/ LoadAlone
    \/ Commit
    \/ CommitFails
    \/ EmitBid
    \/ EmitBidFails

SpecSteps == Init /\ [][NextSteps]_vars

(* ---------------------------- concurrent rounds ------------------------ *)
\* lines 1158-1176 on thread w: the player is chosen and the session holds
\* its copy of the row
SelectLoaded(w, a, p) ==
    /\ Len(events) + Cardinality(InFlight) < MaxThreadEvents
    /\ inflight' = [inflight EXCEPT ![w] =
           [pc |-> "select", auction_id |-> a, player_id |-> p,
            row |-> auction[a]]]
    /\ UNCHANGED <<auction, bids, events, resp>>

\* lines 1143-1176 on thread w: select_player up to its assignments
select_load(w, data) ==
    LET a == data.auction_id
        p == data.player_id
    IN  /\ inflight[w].pc = "idle"
        /\ IF ~TruthyId(a)
           THEN Reply("select_player", 400, "Auction ID is required")
           ELSE IF a \notin DOMAIN auction
           THEN Reply("select_player", 404, "Auction not found")
           ELSE IF data.random
           THEN IF auction[a].players = {}
                THEN Reply("select_player", 400, NoAvailablePlayers)
                ELSE \E q \in auction[a].players : SelectLoaded(w, a, q)
           ELSE IF ~TruthyId(p)
           THEN Reply("select_player", 400, "Player ID is required")
           ELSE IF p \notin PlayerIds
           THEN Reply("select_player", 404, "Player not found")
           ELSE IF p \notin auction[a].players
           THEN Reply("select_player", 400, PlayerNotInAuction)
           ELSE SelectLoaded(w, a, p)

\* lines 1178-1182 on thread w: the UPDATE carries the columns whose new
\* value differs from the session's copy
select_write(w) ==
    LET a == inflight[w].auction_id
        p == inflight[w].player_id
        row == inflight[w].row
    IN  /\ inflight[w].pc = "select"
        /\ auction' = [auction EXCEPT
              ![a].current_player_id =
                  IF p # row.current_player_id THEN p ELSE @,
              ![a].highest_bid =
                  IF 0 # row.highest_bid THEN 0 ELSE @,
              ![a].highest_bid_team_id =
                  IF None # row.highest_bid_team_id THEN None ELSE @]
        /\ inflight' = [inflight EXCEPT ![w] =
               AtEmit("select_player", 200,
                      [type |-> "player_live", player_id |-> p,
                       player_name |-> player_name(p),
                       base_price |-> base_price(p),
                       min_bid |-> min_bid(a),
                       current_bid |-> 0,
                       total_amount |-> base_price(p)])]
        /\ UNCHANGED <<bids, events, resp>>

\* lines 1286-1294 on thread w: the lookups and the check of sell_player
sell_load(w, data) ==
    LET a == data.auction_id
        p == data.player_id
    IN  /\ inflight[w].pc = "idle"
        /\ IF a \notin DOMAIN auction \/ p \notin PlayerIds
           THEN Reply("sell_player", 404, "Not Found")
           ELSE IF auction[a].highest_bid_team_id = None
           THEN Reply("sell_player", 400, NoBidPlaced)
           ELSE /\ Len(events) + Cardinality(InFlight) < MaxThreadEvents
                /\ inflight' = [inflight EXCEPT ![w] =
                       [pc |-> "sell", auction_id |-> a, player_id |-> p,
                        row |-> auction[a]]]
                /\ UNCHANGED <<auction, bids, events, resp>>

\* sell_write that also takes the sold player off the roster
sell_write_removes_player(w) ==
    LET a == inflight[w].auction_id
        p == inflight[w].player_id
        row == inflight[w].row
    IN  /\ inflight[w].pc = "sell"
        /\ auction' = [auction EXCEPT
              ![a].current_player_id = None,
              ![a].highest_bid = 0,
              ![a].highest_bid_team_id = None,
              ![a].players = @ \ {p}]
        /\ inflight' = [inflight EXCEPT ![w] =
               AtEmit("sell_player", 200,
                      [type |-> "player_sold", player_id |-> p,
                       player_name |-> player_name(p),
                       team_id |-> row.highest_bid_team_id,
                       team_name |-> team_name(row.highest_bid_team_id),
                       sold_price |-> base_price(p) + row.highest_bid,
                       base_price |-> base_price(p),
                       cumulative_bids |-> row.highest_bid])]
        /\ UNCHANGED <<bids, events, resp>>

\* lines 1296-1308 on thread w: the payload is built from the session's
\* copy, and the UPDATE carries the columns that differ from it
sell_write(w) ==
    LET a == inflight[w].auction_id
        p == inflight[w].player_id
        row == inflight[w].row
    IN  /\ inflight[w].pc = "sell"
        /\ auction' = [auction EXCEPT
              ![a].current_player_id =
                  IF None # row.current_player_id THEN None ELSE @,
              ![a].highest_bid =
                  IF 0 # row.highest_bid THEN 0 ELSE @,
              ![a].highest_bid_team_id =
                  IF None # row.highest_bid_team_id THEN None ELSE @]
        /\ inflight' = [inflight EXCEPT ![w] =
               AtEmit("sell_player", 200,
                      [type |-> "player_sold", player_id |-> p,
                       player_name |-> player_name(p),
                       team_id |-> row.highest_bid_team_id,
                       team_name |-> team_name(row.highest_bid_team_id),
                       sold_price |-> base_price(p) + row.highest_bid,
                       base_price |-> base_price(p),
                       cumulative_bids |-> row.highest_bid])]
        /\ UNCHANGED <<bids, events, resp>>

SelectLoad ==
    \E w \in Workers, data \in StepSelectRequests : select_load(w, data)
SelectWrite == \E w \in Workers : select_write(w)
SellLoad == \E w \in Workers, data \in StepSellRequests : sell_load(w, data)
SellWrite == \E w \in Workers : sell_write(w)
LoadBid ==
    \E w \in Workers, data \in StepBidRequests : PlaceBidLoad(w, data)

NextThreads ==
    \/ Quiescent /\ GoLive
    \/ Quiescent /\ Close
    \/ SelectLoad
    \/ SelectWrite
    \/ SellLoad
    \/ SellWrite
    \/ EmitEvent
    \/ LoadBid
    \/ Commit
    \/ EmitBid

SpecThreads == Init /\ [][NextThreads]_vars

(* ---------------------------- two auctions ----------------------------- *)
AuctionRows == {1, 2}           \* the auction table after two add_auction

\* add_auction twice: two draft auctions, each with every player picked
InitAuctions ==
    /\ auction = [a \in AuctionRows |->
                    [status |-> "draft", is_live |-> FALSE,
                     current_player_id |-> None, highest_bid |-> 0,
                     highest_bid_team_id |-> None, players |-> PlayerIds]]
    /\ bids = <<>>
    /\ events = <<>>
    /\ resp = Response("none", 0, "")
    /\ inflight = [w \in Workers |-> IdleThread]

\* live_auction_view: the rows that match its filter; .first() has no
\* ORDER BY, so the page shows one of them
live_auction_view == {a \in DOMAIN auction :
                         auction[a].is_live /\ auction[a].status = "live"}

\* requests that name a row of the table and one player for each row
RowSelectRequests ==
    {[auction_id |-> a, player_id |-> a, random |-> FALSE] : a \in AuctionRows}
RowBidRequests ==
    {[auction_id |-> a, player_id |-> a, team_id |-> 1,
      bid_amount |-> Num(1)] : a \in AuctionRows}
RowSellRequests == {[auction_id |-> a, player_id |-> a] : a \in AuctionRows}

GoLiveRow == \E a \in AuctionRows : go_live_auction(a)
CloseRow == \E a \in AuctionRows : close_auction(a)
SelectLoadRow ==
    \E w \in Workers, data \in RowSelectRequests : select_load(w, data)
SellLoadRow ==
    \E w \in Workers, data \in RowSellRequests : sell_load(w, data)
LoadBidRow ==
    \E w \in Workers, data \in RowBidRequests : PlaceBidLoad(w, data)

NextAuctions ==
    \/ GoLiveRow
    \/ CloseRow
    \/ SelectLoadRow
    \/ SelectWrite
    \/ SellLoadRow
    \/ SellWrite
    \/ EmitEvent
    \/ LoadBidRow
    \/ Commit
    \/ EmitBid

SpecAuctions == InitAuctions /\ [][NextAuctions]_vars

(* ---------------------------- properties ------------------------------ *)
LastEvent(log) == log[Len(log)]

\* the Bid records of the pair (auction a, player p), in insertion order
BidsFor(a, p) ==
    SelectSeq(bids, LAMBDA b : b.auction_id = a /\ b.player_id = p)

\* C1: whenever a player is up for bid, highest_bid equals the sum of the
\* amounts of all Bid records of (auction, that player).
C1_CumulativeEqualsLedgerSum ==
    \A a \in AuctionIds :
        auction[a].current_player_id # None =>
            auction[a].highest_bid
                = SumAmounts(BidsFor(a, auction[a].current_player_id))

\* C2: no update is lost between concurrent place_bid calls: the commit of
\* every bid raises the stored highest_bid by exactly that bid's amount, so
\* two calls with amounts a and b leave it at its old value plus a plus b.
C2_NoLostUpdate ==
    [][\A w \in Workers :
          PlaceBidCommit(w) =>
              LET a == inflight[w].data.auction_id
              IN  auction'[a].highest_bid
                      = auction[a].highest_bid + inflight[w].data.bid_amount.v
      ]_vars

\* C3: every successful select_player, by id or random, leaves the selected
\* player as current_player_id, highest_bid = 0 and no highest_bid_team_id,
\* whatever the fields held before; the player_live event names that player.
C3_SelectPlayerResets ==
    [][\A data \in SelectRequests :
          (/\ resp' = Response("select_player", 200, "")
           /\ select_player(data)) =>
              LET a == data.auction_id
                  row == auction'[a]
              IN  /\ IF data.random
                     THEN row.current_player_id \in auction[a].players
                     ELSE row.current_player_id = data.player_id
                  /\ row.highest_bid = 0
                  /\ row.highest_bid_team_id = None
                  /\ Len(events') = Len(events) + 1
                  /\ LastEvent(events').type = "player_live"
                  /\ LastEvent(events').player_id = row.current_player_id
      ]_vars

\* a player is selected over an open round that has a bid and a leader
C3_Witness ==
    /\ Len(events) >= 2
    /\ events[Len(events) - 1].type = "new_bid"
    /\ LastEvent(events).type = "player_live"
    /\ resp = Response("select_player", 200, "")
    /\ \A a \in AuctionIds :
          /\ auction[a].current_player_id = LastEvent(events).player_id
          /\ auction[a].highest_bid = 0
          /\ auction[a].highest_bid_team_id = None

\* C4: sell_player on an existing auction and player fails with NoBidPlaced
\* exactly when highest_bid_team_id is unset at the call, and then changes
\* neither the auction row nor the Bid table and emits nothing.
C4_SellNoBidPlaced ==
    [][\A data \in SellRequests :
          (/\ resp'.op = "sell_player"
           /\ data.auction_id \in AuctionIds
           /\ data.player_id \in PlayerIds
           /\ sell_player(data)) =>
              /\ (resp'.error = NoBidPlaced)
                    <=> (auction[data.auction_id].highest_bid_team_id = None)
              /\ resp'.error = NoBidPlaced =>
                    /\ resp'.status = 400
                    /\ UNCHANGED <<auction, bids, events>>
      ]_vars

\* a sale is refused on an open round that has no bid yet
C4_Witness ==
    /\ resp = Response("sell_player", 400, NoBidPlaced)
    /\ \E a \in AuctionIds :
          /\ auction[a].status = "live"
          /\ auction[a].current_player_id # None
          /\ auction[a].highest_bid_team_id = None

\* C5: the player_sold event of every successful sell_player names the
\* player up for bid at the call, the leading team, the cumulative bid and
\* sold_price = that player's base price + the cumulative bid, whatever
\* player_id the request carries.
C5_SoldEventNamesCurrentPlayer ==
    [][\A data \in SellRequests :
          (/\ resp' = Response("sell_player", 200, "")
           /\ sell_player(data)) =>
              LET row == auction[data.auction_id]
                  e == LastEvent(events')
              IN  /\ Len(events') = Len(events) + 1
                  /\ e.type = "player_sold"
                  /\ e.player_id = row.current_player_id
                  /\ e.team_id = row.highest_bid_team_id
                  /\ e.cumulative_bids = row.highest_bid
                  /\ e.sold_price
                        = base_price(row.current_player_id) + row.highest_bid
      ]_vars

\* a place_bid body that passes the input checks: the ids resolve and the
\* amount is a non-zero number or a numeric string
WellFormedBid(data) ==
    /\ data.auction_id \in AuctionIds
    /\ data.player_id \in PlayerIds
    /\ data.team_id \in TeamIds
    /\ data.bid_amount.t \in {"num", "str"}
    /\ ~(data.bid_amount.t = "num" /\ data.bid_amount.v = 0)

IsLive(a) == auction[a].is_live /\ auction[a].status = "live"
RoundOpen(a) == IsLive(a) /\ auction[a].current_player_id # None

\* C6 as stated: place_bid for a player other than current_player_id always
\* fails with PlayerMismatch and changes nothing.
C6_MismatchAlwaysPlayerMismatch ==
    [][\A data \in PlaceBidRequests :
          (/\ resp'.op = "place_bid"
           /\ WellFormedBid(data)
           /\ data.player_id # auction[data.auction_id].current_player_id
           /\ place_bid(data)) =>
              /\ resp'.error = PlayerMismatch
              /\ UNCHANGED <<auction, bids, events>>
      ]_vars

\* C6 amended: place_bid for a player other than current_player_id always
\* fails and changes nothing (no Bid, row unchanged, no event); a well-formed
\* request fails with PlayerMismatch on a live auction and with NotLive on
\* one that is not live.
C6_MismatchRejected ==
    [][resp'.op = "place_bid" =>
          /\ resp'.status # 200 => UNCHANGED <<auction, bids, events>>
          /\ \A data \in PlaceBidRequests :
                (/\ data.auction_id \in AuctionIds
                 /\ data.player_id
                       # auction[data.auction_id].current_player_id) =>
                    \/ /\ resp'.status # 200
                       /\ WellFormedBid(data) =>
                             resp'.error = IF IsLive(data.auction_id)
                                           THEN PlayerMismatch ELSE NotLive
                    \/ ~place_bid(data)
      ]_vars

\* a bid for another player is refused on an open round that has a leader
C6_Witness ==
    /\ resp = Response("place_bid", 400, PlayerMismatch)
    /\ \E a \in AuctionIds :
          /\ RoundOpen(a)
          /\ auction[a].highest_bid_team_id # None
          /\ Len(bids) = 1

\* C7: every successful place_bid appends exactly its Bid record, adds the
\* amount to highest_bid, makes the bidder highest_bid_team_id and emits one
\* new_bid with this amount, the new cumulative bid and total_amount = the
\* player's base price + the new cumulative bid; a sell_player that names
\* the player up for bid then reports that price for the last bidder.
C7_PlaceBidEffects ==
    [][/\ \A data \in PlaceBidRequests :
            (/\ resp' = Response("place_bid", 200, "")
             /\ place_bid(data)) =>
                LET a == data.auction_id
                    amount == data.bid_amount.v
                    total == auction[a].highest_bid + amount
                    e == LastEvent(events')
                IN  /\ bids' = Append(bids,
                          [auction_id |-> a, player_id |-> data.player_id,
                           team_id |-> data.team_id, bid_amount |-> amount])
                    /\ auction'[a].highest_bid = total
                    /\ auction'[a].highest_bid_team_id = data.team_id
                    /\ Len(events') = Len(events) + 1
                    /\ e.type = "new_bid"
                    /\ e.player_id = data.player_id
                    /\ e.team_id = data.team_id
                    /\ e.amount = amount
                    /\ e.cumulative_bid = total
                    /\ e.total_amount = base_price(data.player_id) + total
       /\ \A data \in SellRequests :
            (/\ resp' = Response("sell_player", 200, "")
             /\ data.auction_id \in AuctionIds
             /\ data.player_id = auction[data.auction_id].current_player_id
             /\ sell_player(data)) =>
                LET row == auction[data.auction_id]
                    e == LastEvent(events')
                IN  /\ e.type = "player_sold"
                    /\ e.team_id = row.highest_bid_team_id
                    /\ e.team_id = bids[Len(bids)].team_id
                    /\ e.sold_price
                          = base_price(data.player_id) + row.highest_bid
      ]_vars

\* two bids of different amounts by different teams on one round: the second
\* bidder leads and the totals are base + 2 and base + 2 + 1
C7_Witness ==
    /\ Len(events) = 4
    /\ Len(bids) = 2
    /\ events[3].type = "new_bid" /\ events[4].type = "new_bid"
    /\ events[3].amount = 2 /\ events[4].amount = 1
    /\ events[3].team_id # events[4].team_id
    /\ events[3].total_amount = base_price(events[3].player_id) + 2
    /\ events[4].total_amount = base_price(events[4].player_id) + 3
    /\ \A a \in AuctionIds :
          /\ auction[a].highest_bid = 3
          /\ auction[a].highest_bid_team_id = events[4].team_id

\* C8: select_player with random on an auction with an empty roster fails
\* with NoAvailablePlayers, leaves the row unchanged and emits nothing.
C8_RandomOnEmptyRoster ==
    [][\A data \in SelectRequests :
          (/\ resp'.op = "select_player"
           /\ data.random
           /\ data.auction_id \in AuctionIds
           /\ auction[data.auction_id].players = {}
           /\ select_player(data)) =>
              /\ resp' = Response("select_player", 400, NoAvailablePlayers)
              /\ UNCHANGED <<auction, bids, events>>
      ]_vars

\* a random selection is refused on a live auction without players
C8_Witness ==
    /\ resp = Response("select_player", 400, NoAvailablePlayers)
    /\ \E a \in AuctionIds :
          auction[a].status = "live" /\ auction[a].players = {}

\* C9: select_player on an auction that is not live (draft or closed) fails
\* with NotLive, leaves the row unchanged and emits no player_live.
C9_SelectNotLive ==
    [][\A data \in SelectRequests :
          (/\ resp'.op = "select_player"
           /\ data.auction_id \in AuctionIds
           /\ auction[data.auction_id].status # "live"
           /\ IF data.random
              THEN auction[data.auction_id].players # {}
              ELSE data.player_id \in auction[data.auction_id].players
           /\ select_player(data)) =>
              /\ resp'.error = NotLive
              /\ UNCHANGED <<auction, bids, events>>
      ]_vars

\* C10 as stated: place_bid fails with NotLive unless a round is open, and
\* then changes nothing.
C10_NotLiveUnlessRoundOpen ==
    [][\A data \in PlaceBidRequests :
          (/\ resp'.op = "place_bid"
           /\ WellFormedBid(data)
           /\ ~RoundOpen(data.auction_id)
           /\ place_bid(data)) =>
              /\ resp'.error = NotLive
              /\ UNCHANGED <<auction, bids, events>>
      ]_vars

\* C10 amended: place_bid is rejected unless a round is open, and then
\* changes nothing (no Bid, row unchanged, no event); a well-formed request
\* fails with NotLive on a draft or closed auction and with PlayerMismatch
\* on a live auction that has no current player.
C10_RejectedUnlessRoundOpen ==
    [][resp'.op = "place_bid" =>
          /\ resp'.status # 200 => UNCHANGED <<auction, bids, events>>
          /\ \A data \in PlaceBidRequests :
                (/\ data.auction_id \in AuctionIds
                 /\ ~RoundOpen(data.auction_id)) =>
                    \/ /\ resp'.status # 200
                       /\ WellFormedBid(data) =>
                             resp'.error
                               = IF auction[data.auction_id].status = "live"
                                 THEN PlayerMismatch ELSE NotLive
                    \/ ~place_bid(data)
      ]_vars

\* a bid is refused on a live auction between two rounds
C10_Witness ==
    /\ resp = Response("place_bid", 400, PlayerMismatch)
    /\ \E a \in AuctionIds :
          /\ auction[a].status = "live"
          /\ auction[a].current_player_id = None

\* C11: select_player with the id of a player that is not on the auction's
\* roster fails with PlayerNotInAuction, leaves current_player_id,
\* highest_bid and highest_bid_team_id (and the rest of the store) unchanged
\* and emits no player_live.
C11_SelectNotInRoster ==
    [][\A data \in SelectRequests :
          (/\ resp'.op = "select_player"
           /\ ~data.random
           /\ data.auction_id \in AuctionIds
           /\ data.player_id \in PlayerIds
           /\ data.player_id \notin auction[data.auction_id].players
           /\ select_player(data)) =>
              /\ resp' = Response("select_player", 400, PlayerNotInAuction)
              /\ UNCHANGED <<auction, bids, events>>
      ]_vars

\* a player off the roster is refused while a round with a bid is open
C11_Witness ==
    /\ resp = Response("select_player", 400, PlayerNotInAuction)
    /\ \E a \in AuctionIds :
          /\ RoundOpen(a)
          /\ auction[a].highest_bid > 0
          /\ auction[a].highest_bid_team_id # None
          /\ auction[a].players # PlayerIds

\* C12: the status of an auction changes only from draft to live and from
\* live to closed: closed is never left, live is entered only from draft and
\* closed only from live.
C12_StatusTransitions ==
    [][\A a \in AuctionIds :
          auction'[a].status # auction[a].status =>
              <<auction[a].status, auction'[a].status>>
                  \in {<<"draft", "live">>, <<"live", "closed">>}
      ]_vars

\* C13: close_auction on an auction that is already closed fails: the row is
\* unchanged and no second auction_closed is emitted.
C13_CloseOnClosedFails ==
    [][\A a \in AuctionIds :
          (/\ resp'.op = "close_auction"
           /\ auction[a].status = "closed"
           /\ close_auction(a)) =>
              /\ resp'.status \notin {200, 302}
              /\ UNCHANGED <<auction, bids, events>>
      ]_vars

\* C14: in every reachable state, is_live holds exactly when status is live.
C14_IsLiveIffStatusLive ==
    \A a \in AuctionIds : auction[a].is_live <=> auction[a].status = "live"

\* an auction that was started, closed and started again, and one that was
\* closed while a round with a bid was open
C14_Witness ==
    \E a \in AuctionIds :
        \/ /\ auction[a].status = "live" /\ auction[a].is_live
           /\ \E i \in 1..Len(events) : events[i].type = "auction_closed"
        \/ /\ auction[a].status = "closed" /\ ~auction[a].is_live
           /\ auction[a].highest_bid_team_id # None

\* C15: current_player_id is set only while a round is open, and a round is
\* open only on a live auction: on a draft or closed auction (in particular
\* after a close during a round) current_player_id is null.
C15_CurrentPlayerOnlyWhileLive ==
    \A a \in AuctionIds :
        auction[a].status # "live" => auction[a].current_player_id = None

\* the new_bid events, in emission order
NewBidEvents == SelectSeq(events, LAMBDA e : e.type = "new_bid")

\* C16: events are emitted in the order in which their transitions commit,
\* under every interleaving of concurrent requests: Bid rows are inserted in
\* commit order, so the k-th new_bid emitted is the event of the k-th Bid.
C16_EventsInCommitOrder ==
    \A k \in 1..Len(NewBidEvents) :
        /\ k <= Len(bids)
        /\ NewBidEvents[k].player_id = bids[k].player_id
        /\ NewBidEvents[k].team_id = bids[k].team_id
        /\ NewBidEvents[k].amount = bids[k].bid_amount

\* C20: mutations of one auction are serialized: at most one request at a
\* time is between reading the auction's highest_bid, highest_bid_team_id
\* and current_player_id and committing its write to them.
C20_OneMutationInFlight ==
    \A a \in AuctionIds :
        Cardinality({w \in Workers :
                        /\ inflight[w].pc = "loaded"
                        /\ inflight[w].data.auction_id = a}) <= 1

\* the store shows the mutation that the event e reports
Committed(e) ==
    CASE e.type = "auction_started" ->
            /\ auction[e.auction_id].status = "live"
            /\ auction[e.auction_id].is_live
            /\ auction[e.auction_id].current_player_id = None
            /\ auction[e.auction_id].highest_bid = 0
            /\ auction[e.auction_id].highest_bid_team_id = None
      [] e.type = "auction_closed" ->
            /\ auction[e.auction_id].status = "closed"
            /\ ~auction[e.auction_id].is_live
      [] e.type = "player_live" ->
            \E a \in AuctionIds :
                /\ auction[a].current_player_id = e.player_id
                /\ auction[a].highest_bid = 0
                /\ auction[a].highest_bid_team_id = None
      [] e.type = "new_bid" ->
            \E a \in AuctionIds :
                /\ auction[a].current_player_id = e.player_id
                /\ auction[a].highest_bid = e.cumulative_bid
                /\ auction[a].highest_bid_team_id = e.team_id
                /\ bids # <<>>
                /\ bids[Len(bids)] =
                      [auction_id |-> a, player_id |-> e.player_id,
                       team_id |-> e.team_id, bid_amount |-> e.amount]
      [] e.type = "player_sold" ->
            \E a \in AuctionIds :
                /\ auction[a].current_player_id = None
                /\ auction[a].highest_bid = 0
                /\ auction[a].highest_bid_team_id = None
      [] OTHER -> FALSE

\* C17: every event is emitted only after the mutation that caused it has
\* committed: the step that emits it is taken by a handler that is past its
\* commit, changes nothing in the store, and the store already shows the
\* mutation; a handler that answers before it is past its commit (a failed
\* check, a commit that raised) answers with an error, has changed nothing
\* and emits nothing.
C17_EmitAfterCommit ==
    [][/\ events' # events =>
            /\ Len(events') = Len(events) + 1
            /\ UNCHANGED <<auction, bids>>
            /\ \E w \in Workers :
                  /\ inflight[w].pc \in {"emit", "committed"}
                  /\ inflight'[w] = IdleThread
            /\ LastEvent(events') # EmitRaised =>
                  Committed(LastEvent(events'))
       /\ \A w \in Workers :
            (/\ inflight[w].pc \in {"idle", "loaded"}
             /\ inflight'[w].pc \in {"emit", "committed"}) =>
                events' = events
       /\ (/\ resp' # resp
           /\ \A w \in Workers : inflight[w].pc \in {"idle", "loaded"}) =>
            /\ resp'.status \notin {200, 302}
            /\ UNCHANGED <<auction, bids, events>>
            /\ \A w \in Workers : inflight'[w] = IdleThread
      ]_vars

\* a round from go-live to the sale, each event delivered after its commit
C17_Witness ==
    /\ Len(events) = 4
    /\ events[1].type = "auction_started"
    /\ events[2].type = "player_live"
    /\ events[3].type = "new_bid"
    /\ events[4].type = "player_sold"
    /\ resp = Response("sell_player", 200, "")
    /\ Len(bids) = 1

\* C18: place_bid is atomic: the step that ends the mutation either appends
\* the Bid, adds the amount to highest_bid and sets highest_bid_team_id, all
\* at once, or (an error in the commit) changes nothing, emits nothing and
\* answers 500 with no event to come; no step appends a Bid without the
\* increase or increases highest_bid without the Bid.
C18_PlaceBidAtomic ==
    [][/\ \A w \in Workers :
            (inflight[w].pc = "loaded" /\ inflight'[w] # inflight[w]) =>
                LET d == inflight[w].data
                    a == d.auction_id
                IN  \/ /\ bids' = Append(bids, NewBid(d))
                       /\ auction'[a].highest_bid
                             = auction[a].highest_bid + Float(d.bid_amount)
                       /\ auction'[a].highest_bid_team_id = d.team_id
                       /\ inflight'[w].pc = "committed"
                       /\ events' = events
                    \/ /\ UNCHANGED <<auction, bids, events>>
                       /\ inflight'[w] = IdleThread
                       /\ resp'.op = "place_bid" /\ resp'.status = 500
       /\ bids' # bids =>
            \E w \in Workers :
                inflight[w].pc = "loaded" /\ inflight'[w].pc = "committed"
       /\ \A a \in AuctionIds :
            auction'[a].highest_bid > auction[a].highest_bid =>
                bids' # bids
      ]_vars

\* a second bid of a round fails in its commit: the first bid stands alone
C18_Witness ==
    /\ resp = Response("place_bid", 500, "Error placing bid: commit")
    /\ Len(bids) = 1
    /\ \E a \in AuctionIds :
          /\ RoundOpen(a)
          /\ auction[a].highest_bid = bids[1].bid_amount
          /\ auction[a].highest_bid_team_id = bids[1].team_id

\* C19: when the socketio.emit that follows a commit raises, the committed
\* row and Bid stay in the store and the request is still answered as a
\* success.
C19_EmitFailureKeepsSuccess ==
    [][(/\ Len(events') = Len(events) + 1
        /\ LastEvent(events') = EmitRaised) =>
            /\ UNCHANGED <<auction, bids>>
            /\ resp'.status \in {200, 302}
      ]_vars

\* C21: every successful go_live_auction leaves status live, is_live true,
\* no current player, highest_bid 0 and no leader, and emits exactly one
\* auction_started with the auction's id and name.
C21_GoLiveEffects ==
    [][\A a \in AuctionIds :
          (/\ resp' = Response("go_live_auction", 302, "")
           /\ go_live_auction(a)) =>
              /\ auction'[a].status = "live"
              /\ auction'[a].is_live
              /\ auction'[a].current_player_id = None
              /\ auction'[a].highest_bid = 0
              /\ auction'[a].highest_bid_team_id = None
              /\ events' = Append(events,
                      [type |-> "auction_started", auction_id |-> a,
                       auction_name |-> auction_name(a)])
              /\ bids' = bids
      ]_vars

\* an auction goes live over a round that has a bid and a leader
C21_Witness ==
    /\ resp = Response("go_live_auction", 302, "")
    /\ Len(events) >= 2
    /\ LastEvent(events).type = "auction_started"
    /\ events[Len(events) - 1].type = "new_bid"
    /\ \A a \in AuctionIds :
          /\ auction[a].status = "live"
          /\ auction[a].current_player_id = None
          /\ auction[a].highest_bid = 0
          /\ auction[a].highest_bid_team_id = None

\* no new_bid was emitted since the last player_sold of the log
NoBidSinceSale ==
    \E i \in 1..Len(events) :
        /\ events[i].type = "player_sold"
        /\ \A j \in (i + 1)..Len(events) : events[j].type # "new_bid"

\* C22: every successful sell_player leaves no current player, highest_bid 0
\* and no leader, and a sell_player that follows a sale without a new bid
\* (which takes a select_player first) fails with NoBidPlaced.
C22_SellReturnsToIdle ==
    [][\A data \in SellRequests :
          (/\ resp'.op = "sell_player"
           /\ data.auction_id \in AuctionIds
           /\ data.player_id \in PlayerIds
           /\ sell_player(data)) =>
              /\ resp'.status = 200 =>
                    /\ auction'[data.auction_id].current_player_id = None
                    /\ auction'[data.auction_id].highest_bid = 0
                    /\ auction'[data.auction_id].highest_bid_team_id = None
              /\ NoBidSinceSale =>
                    /\ resp' = Response("sell_player", 400, NoBidPlaced)
                    /\ UNCHANGED <<auction, bids, events>>
      ]_vars

\* a second sale is refused right after the sale of a round
C22_Witness ==
    /\ resp = Response("sell_player", 400, NoBidPlaced)
    /\ events # <<>>
    /\ LastEvent(events).type = "player_sold"
    /\ \A a \in AuctionIds :
          /\ auction[a].current_player_id = None
          /\ auction[a].highest_bid = 0
          /\ auction[a].highest_bid_team_id = None

\* C23: whenever highest_bid_team_id is set, it is the team of the last Bid
\* recorded, which is a Bid for the current player, whatever the amounts.
C23_LeaderIsLastBidder ==
    \A a \in AuctionIds :
        auction[a].highest_bid_team_id # None =>
            /\ bids # <<>>
            /\ bids[Len(bids)].auction_id = a
            /\ bids[Len(bids)].team_id = auction[a].highest_bid_team_id
            /\ bids[Len(bids)].player_id = auction[a].current_player_id

\* the last bidder leads with the smaller of two bids
C23_Witness ==
    /\ Len(bids) = 2
    /\ bids[1].bid_amount > bids[2].bid_amount
    /\ bids[1].team_id # bids[2].team_id
    /\ bids[1].player_id = bids[2].player_id
    /\ \A a \in AuctionIds :
          /\ auction[a].highest_bid_team_id = bids[2].team_id
          /\ auction[a].highest_bid = bids[1].bid_amount + bids[2].bid_amount

C25_SellKeepsRoster ==
    [][\A w \in Workers :
          /\ (inflight[w].pc = "sell" /\ inflight'[w] # inflight[w]) =>
                auction'[inflight[w].auction_id].players
                    = auction[inflight[w].auction_id].players
          /\ \A data \in StepSelectRequests :
                (/\ events # <<>>
                 /\ inflight[w].pc = "idle"
                 /\ LastEvent(events).type = "player_sold"
                 /\ LastEvent(events).player_id
                       \in auction[data.auction_id].players
                 /\ data.random \/ data.player_id = LastEvent(events).player_id
                 /\ select_load(w, data)) =>
                    /\ inflight'[w].pc = "select"
                    /\ IF data.random
                       THEN inflight'[w].player_id
                              \in auction[data.auction_id].players
                       ELSE inflight'[w].player_id
                              = LastEvent(events).player_id
      ]_vars

\* a player is sold and then selected again: a new round for the same player
C25_Witness ==
    /\ Len(events) = 5
    /\ events[4].type = "player_sold"
    /\ events[5].type = "player_live"
    /\ events[2].type = "player_live"
    /\ events[2].player_id = events[4].player_id
    /\ events[5].player_id = events[4].player_id
    /\ resp = Response("select_player", 200, "")
    /\ \A a \in AuctionIds :
          /\ auction[a].current_player_id = events[4].player_id
          /\ events[4].player_id \in auction[a].players

\* C26: under every interleaving of place_bid with a select_player of
\* another player, a bid that commits after the player change is rejected:
\* a Bid is committed, and raises highest_bid and sets the leader, only for
\* the player that is current_player_id at the commit.
C26_NoBidAcrossPlayerChange ==
    [][\A w \in Workers :
          PlaceBidCommit(w) =>
              auction[inflight[w].data.auction_id].current_player_id
                  \in {None, inflight[w].data.player_id}
      ]_vars

\* no player is up for bid, and the round has no bid and no leader
Idle(a) ==
    /\ auction[a].current_player_id = None
    /\ auction[a].highest_bid = 0
    /\ auction[a].highest_bid_team_id = None

\* C27: under every interleaving of place_bid with sell_player, an idle
\* round (as a committed sale leaves it) stays idle until a select_player
\* commits: a bid that passed its checks before the sale sets neither
\* highest_bid nor the leader afterwards.
C27_IdleUntilSelect ==
    [][\A a \in AuctionIds :
          (/\ Idle(a)
           /\ \A w \in Workers : inflight[w].pc # "select") =>
              /\ auction'[a].current_player_id = None
              /\ auction'[a].highest_bid = 0
              /\ auction'[a].highest_bid_team_id = None
      ]_vars

\* C28: with requests that run one at a time, whenever no player is up for
\* bid highest_bid is 0 and there is no leader.
C28_NoPlayerNoBid ==
    \A a \in AuctionIds :
        auction[a].current_player_id = None =>
            /\ auction[a].highest_bid = 0
            /\ auction[a].highest_bid_team_id = None

\* a round with a bid was sold: no player, no bid, no leader
C28_Witness ==
    /\ Len(bids) = 1
    /\ LastEvent(events).type = "player_sold"
    /\ LastEvent(events).cumulative_bids > 0
    /\ resp = Response("sell_player", 200, "")
    /\ \A a \in AuctionIds : Idle(a)

\* C29: a round produces at most one player_sold, also with concurrent
\* sell_player requests: between two player_sold events of the log there is
\* a player_live.
C29_OneSalePerRound ==
    \A i, j \in 1..Len(events) :
        (/\ i < j
         /\ events[i].type = "player_sold"
         /\ events[j].type = "player_sold") =>
            \E k \in (i + 1)..(j - 1) : events[k].type = "player_live"

\* C30: sell_player succeeds only on a live auction: on a draft or closed
\* auction no sale commits and no player_sold is emitted.
C30_SellOnlyWhileLive ==
    [][\A a \in AuctionIds :
          auction[a].status # "live" =>
              /\ \A w \in Workers :
                    ~(/\ inflight[w].pc = "sell"
                      /\ inflight[w].auction_id = a
                      /\ inflight'[w].pc = "emit")
              /\ ~(/\ Len(events') = Len(events) + 1
                    /\ LastEvent(events').type = "player_sold")
      ]_vars

\* C31: only positive amounts are accepted by place_bid: every place_bid
\* that records a Bid strictly increases highest_bid, which is never
\* negative, and a zero, negative, missing or non-numeric amount is
\* rejected and changes nothing.
C31_OnlyPositiveAmounts ==
    [][\A a \in AuctionIds :
          (resp'.op = "place_bid" /\ bids' # bids) =>
              /\ LastEvent(bids').bid_amount > 0
              /\ auction'[a].highest_bid > auction[a].highest_bid
              /\ auction'[a].highest_bid >= 0
      ]_vars

\* C32: place_bid checks the amount against neither min_bid nor max_bid: on
\* an open round, for the player up for bid and an existing team, a bid of
\* any positive amount succeeds, below min_bid and above max_bid alike.
C32_NoAmountLimits ==
    [][resp'.op = "place_bid" =>
          \A data \in PlaceBidRequests :
              (/\ data.auction_id \in AuctionIds
               /\ RoundOpen(data.auction_id)
               /\ data.player_id = auction[data.auction_id].current_player_id
               /\ data.team_id \in TeamIds
               /\ data.bid_amount.t = "num"
               /\ data.bid_amount.v > 0) =>
                  \/ /\ resp' = Response("place_bid", 200, "")
                     /\ bids' = Append(bids, NewBid(data))
                     /\ auction'[data.auction_id].highest_bid
                           = auction[data.auction_id].highest_bid
                             + data.bid_amount.v
                  \/ ~place_bid(data)
      ]_vars

\* a bid below min_bid and a bid above max_bid were both accepted
C32_Witness ==
    /\ Len(bids) = 2
    /\ resp = Response("place_bid", 200, "")
    /\ bids[1].bid_amount < min_bid(bids[1].auction_id)
    /\ bids[2].bid_amount > max_bid(bids[2].auction_id)
    /\ \A a \in AuctionIds : auction[a].highest_bid = 4

\* the Bid records of auction b in the table log
RowBids(log, b) == SelectSeq(log, LAMBDA r : r.auction_id = b)

\* the auction a request in flight is working on
AuctionOf(t) ==
    CASE t.pc \in {"loaded", "committed"} -> t.data.auction_id
      [] t.pc \in {"select", "sell"} -> t.auction_id
      [] OTHER -> None

\* C33: auctions are independent under every interleaving: the row of an
\* auction (status, is_live, current_player_id, highest_bid, leader) and
\* its Bid records change only in a step of a request on that auction, so
\* any operation on another auction leaves them unchanged.
C33_AuctionsIndependent ==
    [][\A b \in AuctionRows :
          (auction'[b] # auction[b] \/ RowBids(bids', b) # RowBids(bids, b)) =>
              \/ \E w \in Workers :
                    /\ inflight'[w] # inflight[w]
                    /\ AuctionOf(inflight[w]) = b
              \/ /\ resp'.op \in {"go_live_auction", "close_auction"}
                 /\ Len(events') = Len(events) + 1
                 /\ LastEvent(events').auction_id = b
      ]_vars

\* a bid on auction 1 has committed while a select_player on the live
\* auction 2 is between its load and its commit
C33_Witness ==
    /\ auction[2].status = "live"
    /\ auction[1].highest_bid = 1
    /\ Len(RowBids(bids, 1)) = 1
    /\ RowBids(bids, 2) = <<>>
    /\ \E w, v \in Workers :
          /\ inflight[w].pc = "committed"
          /\ inflight[w].data.auction_id = 1
          /\ inflight[v].pc = "select"
          /\ inflight[v].auction_id = 2

\* C37: at most one auction is live at any time, so the round events, which
\* carry no auction id, refer to the one auction that the live view shows.
C37_OneLiveAuction ==
    Cardinality(live_auction_view) <= 1

RECURSIVE SumTotals(_)
SumTotals(S) ==
    IF S = {} THEN 0
    ELSE LET e == CHOOSE x \in S : TRUE
         IN  e.total_bid + SumTotals(S \ {e})

\* C35: get_team_spending(auction, player) returns exactly one entry per
\* team that has a Bid for the pair, with the sum of that team's amounts;
\* teams without a Bid are absent, the totals add up to the ledger sum of
\* the pair, and the query changes no state.
C35_TeamSpending ==
    [][resp'.op = "get_team_spending" =>
          /\ UNCHANGED <<auction, bids, events, inflight>>
          /\ \A a \in AuctionIds, p \in PlayerIds \cup {3} :
                \/ ~get_team_spending(a, p)
                \/ /\ resp'.status = 200
                   /\ \A t \in TeamIds :
                         LET entries == {e \in resp'.spending : e.team_id = t}
                             mine == {i \in 1..Len(bids) :
                                         /\ bids[i].auction_id = a
                                         /\ bids[i].player_id = p
                                         /\ bids[i].team_id = t}
                         IN  /\ Cardinality(entries)
                                   = IF mine = {} THEN 0 ELSE 1
                             /\ \A e \in entries :
                                   /\ e.team_name = team_name(t)
                                   /\ e.total_bid =
                                         SumAmounts(SelectSeq(BidsFor(a, p),
                                             LAMBDA b : b.team_id = t))
                   /\ \A e \in resp'.spending : e.team_id \in TeamIds
                   /\ SumTotals(resp'.spending) = SumAmounts(BidsFor(a, p))
      ]_vars

\* one team bid 2 and 1 for the player: one entry of total 3, and the team
\* that did not bid is absent
C35_Witness ==
    /\ resp.op = "get_team_spending"
    /\ Len(bids) = 2
    /\ bids[1].bid_amount = 2 /\ bids[2].bid_amount = 1
    /\ Cardinality(resp.spending) = 1
    /\ \A e \in resp.spending : e.total_bid = 3

\* C36: the player up for bid is a roster member: select_player with random
\* on a non-empty roster selects a player of that auction's roster, and
\* after every go_live_auction, select_player, place_bid, sell_player and
\* close_auction a current_player_id that is not NULL is in auction.players.
C36_CurrentPlayerOnRoster ==
    [][\A a \in AuctionIds :
          /\ auction'[a].current_player_id # None =>
                auction'[a].current_player_id \in auction'[a].players
          /\ resp'.op = "select_player" =>
                \A data \in SelectRequests :
                    (/\ data.random
                     /\ data.auction_id = a
                     /\ auction[a].players # {}) =>
                        \/ /\ resp' = Response("select_player", 200, "")
                           /\ auction'[a].current_player_id
                                 \in auction[a].players
                        \/ ~select_player(data)
      ]_vars

\* on a roster of player 2 alone the round of player 2 was bid on and the
\* auction closed with player 2 still up for bid
C36_Witness ==
    \E a \in AuctionIds :
        /\ auction[a].players = {2}
        /\ auction[a].current_player_id = 2
        /\ auction[a].status = "closed"
        /\ BidsFor(a, 2) # <<>>

====
